---- MODULE Spec2Model ----
(***************************************************************************)
(* The translation proxy of src/proxy-server/main.py: the /translate       *)
(* endpoint, TranslationService.translate, the retry loop                  *)
(* _retry_translate, the classification done by _call_openrouter, and the  *)
(* /stats and /health read paths.                                          *)
(*                                                                         *)
(* Each request is one asyncio task.  A task is suspended only at          *)
(* `await self.client.post(...)` (pc = "calling") and at                   *)
(* `await asyncio.sleep(delay)` (pc = "sleeping"); everything between two  *)
(* suspension points runs as one atomic step of the event loop.            *)
(*                                                                         *)
(* Texts are sequences of one-character strings, delays are whole seconds, *)
(* response times are whole milliseconds.                                  *)
(***************************************************************************)
EXTENDS Integers, Sequences, FiniteSets, TLC

\* Number of request tasks of one behaviour.
NReq == 3

Reqs == 1..NReq

-----------------------------------------------------------------------------
(* Text helpers: str.strip()                                               *)

IsSpace(c) == c = " "

RECURSIVE LStrip(_)
LStrip(s) ==
    IF s = <<>> THEN s
    ELSE IF IsSpace(Head(s)) THEN LStrip(Tail(s)) ELSE s

RECURSIVE RStrip(_)
RStrip(s) ==
    IF s = <<>> THEN s
    ELSE IF IsSpace(s[Len(s)]) THEN RStrip(SubSeq(s, 1, Len(s) - 1)) ELSE s

Strip(s) == RStrip(LStrip(s))

\* float(s) for the header values the upstream sends here: an unsigned
\* decimal integer parses to its value, anything else raises ValueError.
Digits == <<"0", "1", "2", "3", "4", "5", "6", "7", "8", "9">>

IsDigit(c) == \E i \in 1..Len(Digits) : Digits[i] = c

DigitVal(c) == (CHOOSE i \in 1..Len(Digits) : Digits[i] = c) - 1

RECURSIVE DecimalValue(_)
DecimalValue(s) ==
    IF s = <<>> THEN 0
    ELSE 10 * DecimalValue(SubSeq(s, 1, Len(s) - 1)) + DigitVal(s[Len(s)])

ParseFloat(s) ==
    IF s # <<>> /\ \A i \in 1..Len(s) : IsDigit(s[i])
    THEN [ok |-> TRUE, value |-> DecimalValue(s)]
    ELSE [ok |-> FALSE, value |-> 0]

-----------------------------------------------------------------------------
(* Exceptions.  retry_after is an attribute of RateLimitError only; it is  *)
(* 0 in every other exception value.                                       *)

Exc(cls) == [cls |-> cls, retry_after |-> 0]

NoException == Exc("None")

\* RateLimitError.__init__: retry_after defaults to 5.0
DefaultRetryAfter == 5

RateLimitError(retry_after) ==
    [cls |-> "RateLimitError", retry_after |-> retry_after]

\* The direct base class of an exception class.
BaseOf(cls) ==
    CASE cls \in {"EmptyResponseError", "PaymentError", "RateLimitError"}
            -> "OpenRouterError"
      [] OTHER -> "Exception"

RECURSIVE IsInstance(_, _)
IsInstance(cls, of) ==
    \/ cls = of
    \/ cls # "Exception" /\ IsInstance(BaseOf(cls), of)

-----------------------------------------------------------------------------
(* What the upstream can answer to one POST.                               *)
(*   transport : "ok", or the httpx exception client.post raises           *)
(*   status    : the HTTP status code                                      *)
(*   header    : the Retry-After header                                    *)
(*   body      : the response body                                         *)

NoHeader == [present |-> FALSE, value |-> <<>>]

Header(v) == [present |-> TRUE, value |-> v]

\* One element of "choices".  content_kind says what
\* choice.get("message", {}).get("content", "") finds:
\*   "no_message", "absent" : the default ""      "null" : JSON null
\*   "str" : the string `content`
Choice(kind, content) == [content_kind |-> kind, content |-> content]

\* error_kind: "absent" (no "error" key), "object" (a JSON object whose
\* .get("code", 0) is error_code), "string" (a JSON string).
Body(valid_json, error_kind, error_code, has_choices, choices) ==
    [valid_json |-> valid_json, error_kind |-> error_kind,
     error_code |-> error_code, has_choices |-> has_choices,
     choices |-> choices]

NoBody == Body(FALSE, "absent", 0, FALSE, <<>>)

Completion(content) ==
    Body(TRUE, "absent", 0, TRUE, <<Choice("str", content)>>)

TransportFailure(cls) ==
    [transport |-> cls, status |-> 0, header |-> NoHeader, body |-> NoBody]

HttpResponse(status, header, body) ==
    [transport |-> "ok", status |-> status, header |-> header, body |-> body]

\* No upstream call has ended yet.
NoAnswer == TransportFailure("none")

\* The texts an upstream completion carries.
Contents == {<<"a">>, <<" ", "b", " ">>, <<" ">>, <<>>}

\* The Retry-After values an upstream 429 carries (seconds, or an HTTP date).
RetryAfterHeaders == {NoHeader, Header(<<"2">>), Header(<<"W", "e", "d">>)}

TransportFailures ==
    {TransportFailure(c) : c \in {"TimeoutException", "ReadError", "ConnectError"}}

\* The bodies an HTTP error status comes with: not JSON, a completion, an
\* error object.
ErrorBodies ==
    {NoBody, Completion(<<"a">>), Body(TRUE, "object", 429, FALSE, <<>>)}

StatusFailures ==
    {HttpResponse(s, NoHeader, b) : s \in {402, 404, 500}, b \in ErrorBodies}
    \cup {HttpResponse(429, h, b) : h \in RetryAfterHeaders, b \in ErrorBodies}

EmbeddedErrors ==
    {HttpResponse(200, NoHeader, Body(TRUE, "object", c, FALSE, <<>>)) :
        c \in {0, 402, 429, 500}}
    \cup {HttpResponse(200, NoHeader,
                       Body(TRUE, "object", c, TRUE, <<Choice("str", <<"a">>)>>)) :
            c \in {0, 402, 429, 500}}
    \cup {HttpResponse(200, NoHeader, Body(TRUE, "string", 0, FALSE, <<>>))}

Completions ==
    {HttpResponse(200, NoHeader, Completion(c)) : c \in Contents}
    \cup {HttpResponse(200, NoHeader,
                       Body(TRUE, "absent", 0, TRUE, <<Choice(k, <<>>)>>)) :
            k \in {"no_message", "absent", "null"}}
    \cup {HttpResponse(200, NoHeader, Body(TRUE, "absent", 0, FALSE, <<>>)),
          HttpResponse(200, NoHeader, Body(TRUE, "absent", 0, TRUE, <<>>)),
          HttpResponse(200, NoHeader, NoBody)}

RawResponses ==
    TransportFailures \cup StatusFailures \cup EmbeddedErrors \cup Completions

-----------------------------------------------------------------------------
(* _call_openrouter: the outcome of one upstream call.                     *)

Return(text) == [kind |-> "return", text |-> text, exc |-> NoException]

Raise(e) == [kind |-> "raise", text |-> <<>>, exc |-> e]

\* headers.get("Retry-After", "5"), then float(...)
RetryAfterOf(header) ==
    ParseFloat(IF header.present THEN header.value ELSE <<"5">>)

\* choices[0].get("message", {}).get("content", "")
ContentOf(choice) ==
    IF choice.content_kind = "str" THEN choice.content ELSE <<>>

\* The body read for its choices before its error.
ParseBodyChoicesFirst(body) ==
    IF ~body.valid_json THEN Raise(Exc("JSONDecodeError"))
    ELSE IF /\ body.has_choices
            /\ body.choices # <<>>
            /\ Strip(ContentOf(body.choices[1])) # <<>>
         THEN Return(Strip(ContentOf(body.choices[1])))
    ELSE IF body.error_kind = "object" THEN
        IF body.error_code = 402 THEN Raise(Exc("PaymentError"))
        ELSE IF body.error_code = 429
             THEN Raise(RateLimitError(DefaultRetryAfter))
        ELSE Raise(Exc("OpenRouterError"))
    ELSE Raise(Exc("EmptyResponseError"))

ParseBody(body) ==
    IF ~body.valid_json THEN Raise(Exc("JSONDecodeError"))
    ELSE IF body.error_kind = "string" THEN Raise(Exc("AttributeError"))
    ELSE IF body.error_kind = "object" THEN
        IF body.error_code = 402 THEN Raise(Exc("PaymentError"))
        ELSE IF body.error_code = 429
             THEN Raise(RateLimitError(DefaultRetryAfter))
        ELSE Raise(Exc("OpenRouterError"))
    ELSE IF ~body.has_choices \/ body.choices = <<>>
         THEN Raise(Exc("EmptyResponseError"))
    ELSE IF body.choices[1].content_kind = "null"
         THEN Raise(Exc("AttributeError"))
    ELSE IF Strip(ContentOf(body.choices[1])) = <<>>
         THEN Raise(Exc("EmptyResponseError"))
    ELSE Return(Strip(ContentOf(body.choices[1])))

CallOpenRouter(raw) ==
    IF raw.transport # "ok" THEN Raise(Exc(raw.transport))
    ELSE IF raw.status = 402 THEN Raise(Exc("PaymentError"))
    ELSE IF raw.status = 429 THEN
        IF RetryAfterOf(raw.header).ok
        THEN Raise(RateLimitError(RetryAfterOf(raw.header).value))
        ELSE Raise(Exc("ValueError"))
    ELSE IF raw.status >= 400 THEN Raise(Exc("OpenRouterError"))
    ELSE ParseBody(raw.body)

-----------------------------------------------------------------------------
(* State                                                                   *)

VARIABLES
    pc,         \* pc[r]: "idle", "calling", "sleeping" or "done"
    request,    \* request[r]: the text of the TranslateRequest
    frame,      \* frame[r]: the locals of _retry_translate
    response,   \* response[r]: what the endpoint hands back
    stats,      \* TranslationService.stats
    last_successful_translation,
                \* TranslationService.last_successful_translation; None is 0
    trace,      \* trace[r]: the upstream calls, their outcomes and the sleeps
                \* of request r, in order (history)
    answer      \* answer[r]: what the upstream gave request r's latest call
                \* (history)

vars ==
    <<pc, request, frame, response, stats, last_successful_translation, trace,
      answer>>

\* The request texts a client sends.
Texts == {<<>>, <<" ">>, <<"a">>}

\* time.time() readings (seconds), and the elapsed times translate measures
\* (milliseconds).
Times == {1, 2}

ElapsedMs == {3}

None == 0

\* A cap that is one too high.
seven_attempts == 6 + 1

\* _retry_translate, lines 232-241
max_total_attempts == 6

\* A schedule that lost its last delay.
short_empty_delays == <<1, 2, 4, 8>>

empty_delays == <<1, 2, 4, 8, 16>>

payment_delays == <<5, 5, 5>>

timeout_delays == <<0, 0, 0>>

four_rate_limit_retries == 3 + 1

max_rate_limit_retries == 3

InitFrame ==
    [attempt |-> 0, empty_retries |-> 0, payment_retries |-> 0,
     timeout_retries |-> 0, rate_limit_retries |-> 0,
     last_exception |-> NoException, delay |-> 0]

InitStats ==
    [total_requests |-> 0, successful |-> 0, failed |-> 0, retries |-> 0,
     fallbacks |-> 0, total_response_time_ms |-> 0]

NoResponse ==
    [kind |-> "none", translated_text |-> <<>>, original_text |-> <<>>,
     translation_failed |-> FALSE]

TranslateResponse(translated_text, original_text, translation_failed) ==
    [kind |-> "response", translated_text |-> translated_text,
     original_text |-> original_text, translation_failed |-> translation_failed]

\* An exception that leaves translate reaches the caller (FastAPI answers 500).
ErrorResponse(original_text) ==
    [kind |-> "error", translated_text |-> <<>>,
     original_text |-> original_text, translation_failed |-> FALSE]

Init ==
    /\ pc = [r \in Reqs |-> "idle"]
    /\ request = [r \in Reqs |-> <<>>]
    /\ frame = [r \in Reqs |-> InitFrame]
    /\ response = [r \in Reqs |-> NoResponse]
    /\ stats = InitStats
    /\ last_successful_translation = None
    /\ trace = [r \in Reqs |-> <<>>]
    /\ answer = [r \in Reqs |-> NoAnswer]

-----------------------------------------------------------------------------
(* _retry_translate: the except clauses of the loop body.  Each gives the  *)
(* locals after the clause, whether it added 1 to stats["retries"], and    *)
(* how the loop goes on: "break", "sleep" (await asyncio.sleep(delay),     *)
(* then the next iteration) or "continue" (the next iteration at once).    *)

Handled(next, f, retried) == [next |-> next, frame |-> f, retried |-> retried]

\* The clause counting on the rate-limit counter.
OnEmptyResponseSharedCounter(f, e) ==
    LET f1 == [f EXCEPT !.last_exception = e] IN
    IF f1.rate_limit_retries >= Len(empty_delays)
    THEN Handled("break", f1, FALSE)
    ELSE Handled("sleep",
                 [f1 EXCEPT !.delay = empty_delays[f1.rate_limit_retries + 1],
                            !.rate_limit_retries = @ + 1],
                 TRUE)

\* The clause indexing its schedule by the attempt.
OnEmptyResponseByAttempt(f, e) ==
    LET f1 == [f EXCEPT !.last_exception = e] IN
    IF f1.empty_retries >= Len(empty_delays)
    THEN Handled("break", f1, FALSE)
    ELSE Handled("sleep",
                 [f1 EXCEPT !.delay =
                                empty_delays[IF f1.attempt < Len(empty_delays)
                                             THEN f1.attempt + 1
                                             ELSE Len(empty_delays)],
                            !.empty_retries = @ + 1],
                 TRUE)

OnEmptyResponse(f, e) ==
    LET f1 == [f EXCEPT !.last_exception = e] IN
    IF f1.empty_retries >= Len(empty_delays)
    THEN Handled("break", f1, FALSE)
    ELSE Handled("sleep",
                 [f1 EXCEPT !.delay = empty_delays[f1.empty_retries + 1],
                            !.empty_retries = @ + 1],
                 TRUE)

\* The clause going to the next attempt without awaiting its sleep.
OnPaymentNoSleep(f, e) ==
    LET f1 == [f EXCEPT !.last_exception = e] IN
    IF f1.payment_retries >= Len(payment_delays)
    THEN Handled("break", f1, FALSE)
    ELSE Handled("continue",
                 [f1 EXCEPT !.delay = payment_delays[f1.payment_retries + 1],
                            !.payment_retries = @ + 1],
                 TRUE)

\* The clause testing a budget kept on the service.
OnPaymentSharedBudget(f, e) ==
    LET f1 == [f EXCEPT !.last_exception = e] IN
    IF stats.retries >= Len(payment_delays)
    THEN Handled("break", f1, FALSE)
    ELSE Handled("sleep",
                 [f1 EXCEPT !.delay = payment_delays[f1.payment_retries + 1],
                            !.payment_retries = @ + 1],
                 TRUE)

OnPayment(f, e) ==
    LET f1 == [f EXCEPT !.last_exception = e] IN
    IF f1.payment_retries >= Len(payment_delays)
    THEN Handled("break", f1, FALSE)
    ELSE Handled("sleep",
                 [f1 EXCEPT !.delay = payment_delays[f1.payment_retries + 1],
                            !.payment_retries = @ + 1],
                 TRUE)

\* The clause sleeping a fixed delay.
OnRateLimitStatic(f, e) ==
    LET f1 == [f EXCEPT !.last_exception = e] IN
    IF f1.rate_limit_retries >= max_rate_limit_retries
    THEN Handled("break", f1, FALSE)
    ELSE Handled("sleep",
                 [f1 EXCEPT !.delay = DefaultRetryAfter,
                            !.rate_limit_retries = @ + 1],
                 TRUE)

OnRateLimit(f, e) ==
    LET f1 == [f EXCEPT !.last_exception = e] IN
    IF f1.rate_limit_retries >= max_rate_limit_retries
    THEN Handled("break", f1, FALSE)
    ELSE Handled("sleep",
                 [f1 EXCEPT !.delay = e.retry_after,
                            !.rate_limit_retries = @ + 1],
                 TRUE)

OnTimeout(f, e) ==
    LET f1 == [f EXCEPT !.last_exception = e] IN
    IF f1.timeout_retries >= Len(timeout_delays)
    THEN Handled("break", f1, FALSE)
    ELSE Handled("continue", [f1 EXCEPT !.timeout_retries = @ + 1], TRUE)

\* The clause retrying as for a payment error.
OnOpenRouterErrorRetried(f, e) == OnPayment(f, e)

\* The clause that does not keep the exception.
OnOpenRouterErrorUnrecorded(f, e) == Handled("break", f, FALSE)

OnOpenRouterError(f, e) ==
    Handled("break", [f EXCEPT !.last_exception = e], FALSE)

OnException(f, e) ==
    Handled("break", [f EXCEPT !.last_exception = e], FALSE)

\* The classes each except clause names, in the order of the clauses.
ExceptClauses ==
    << {"EmptyResponseError"}, {"PaymentError"}, {"RateLimitError"},
       {"TimeoutException", "ReadError", "ConnectError"},
       {"OpenRouterError"}, {"Exception"} >>

Matches(e, i) == \E c \in ExceptClauses[i] : IsInstance(e.cls, c)

\* The first clause that matches e.
ExceptClause(e) ==
    CHOOSE i \in 1..Len(ExceptClauses) :
        /\ Matches(e, i)
        /\ \A j \in 1..(i - 1) : ~Matches(e, j)

Handle(f, e) ==
    CASE ExceptClause(e) = 1 -> OnEmptyResponse(f, e)
      [] ExceptClause(e) = 2 -> OnPayment(f, e)
      [] ExceptClause(e) = 3 -> OnRateLimit(f, e)
      [] ExceptClause(e) = 4 -> OnTimeout(f, e)
      [] ExceptClause(e) = 5 -> OnOpenRouterError(f, e)
      [] OTHER -> OnException(f, e)

\* Re-raising the last exception instead of TranslationExhaustedError.
RaiseLast(f) == Raise(f.last_exception)

\* Lines 300-302: what _retry_translate raises once the loop is left.
RaiseExhausted(f) == Raise(Exc("TranslationExhaustedError"))

-----------------------------------------------------------------------------
(* TranslationService.translate                                            *)

RecordRequest(s) == [s EXCEPT !.total_requests = @ + 1]

\* A retry counted under the wrong key.
RecordRetryAsRequest(s) == [s EXCEPT !.total_requests = @ + 1]

RecordRetry(s) == [s EXCEPT !.retries = @ + 1]

\* A fallback that counts the failure and forgets the fallback.
RecordFailedOnly(s) == [s EXCEPT !.failed = @ + 1]

\* Lines 204-205
\* The fallback counted without the failure.
RecordFallbackOnly(s) == [s EXCEPT !.fallbacks = @ + 1]

RecordFallback(s) == [s EXCEPT !.failed = @ + 1, !.fallbacks = @ + 1]

\* Line 208
RecordElapsed(s, elapsed_ms) == [s EXCEPT !.total_response_time_ms = @ + elapsed_ms]

\* The success left uncounted.
RecordSuccessDeferred(s) == s

\* Line 211
RecordSuccess(s) == [s EXCEPT !.successful = @ + 1]

\* translate's try statement catching OpenRouterError instead.
CaughtOpenRouterError(result) ==
    result.kind = "raise" /\ IsInstance(result.exc.cls, "OpenRouterError")

\* translate's try statement catches TranslationExhaustedError and nothing else.
Caught(result) ==
    result.kind = "raise" /\ IsInstance(result.exc.cls, "TranslationExhaustedError")

\* A fallback that leaves translated_text unset.
FallbackWithoutText(text) == TranslateResponse(<<>>, text, TRUE)

\* Lines 202-203 and 220-225
FallbackResponse(text) == TranslateResponse(text, text, TRUE)

\* The success response carrying the failure flag.
SuccessResponseFlagged(text, translated) ==
    TranslateResponse(translated, text, TRUE)

SuccessResponse(text, translated) == TranslateResponse(translated, text, FALSE)

\* The timestamp written wherever translate is left.
StampAlways(translation_failed, now) == now

\* Lines 210-212: the timestamp is written inside `if not translation_failed`.
StampSuccess(translation_failed, now) ==
    IF translation_failed THEN last_successful_translation ELSE now

\* Lines 195-225: translate from the moment _retry_translate has returned or
\* raised `result`, with s the stats at that moment and f the locals
\* _retry_translate was left with.  No await in between.
TranslateFinish(r, f, result, s) ==
    /\ pc' = [pc EXCEPT ![r] = "done"]
    /\ frame' = [frame EXCEPT ![r] = f]
    /\ UNCHANGED request
    /\ IF result.kind = "raise" /\ ~Caught(result)
       THEN /\ response' = [response EXCEPT ![r] = ErrorResponse(request[r])]
            /\ stats' = s
            /\ UNCHANGED last_successful_translation
       ELSE \E elapsed_ms \in ElapsedMs, now \in Times :
            IF Caught(result)
            THEN /\ response' = [response EXCEPT ![r] = FallbackResponse(request[r])]
                 /\ stats' = RecordElapsed(RecordFallback(s), elapsed_ms)
                 /\ last_successful_translation' = StampSuccess(TRUE, now)
            ELSE /\ response' = [response EXCEPT
                                    ![r] = SuccessResponse(request[r], result.text)]
                 /\ stats' = RecordSuccess(RecordElapsed(s, elapsed_ms))
                 /\ last_successful_translation' = StampSuccess(FALSE, now)

\* `for attempt in range(max_total_attempts)`: the next iteration issues the
\* next upstream call; after the last one the loop is left.
LoopNext(r, f, s) ==
    IF f.attempt + 1 < max_total_attempts
    THEN /\ pc' = [pc EXCEPT ![r] = "calling"]
         /\ frame' = [frame EXCEPT ![r] = [f EXCEPT !.attempt = @ + 1]]
         /\ stats' = s
         /\ UNCHANGED <<request, response, last_successful_translation>>
    ELSE TranslateFinish(r, f, RaiseExhausted(f), s)

\* Lines 183-196: translate up to its first upstream call.
ServiceTranslate(r, text) ==
    /\ stats' = RecordRequest(stats)
    /\ request' = [request EXCEPT ![r] = text]
    /\ frame' = [frame EXCEPT ![r] = InitFrame]
    /\ pc' = [pc EXCEPT ![r] = "calling"]
    /\ UNCHANGED <<response, last_successful_translation>>

\* The endpoint testing for the empty string only.
TranslateEndpointEmptyOnly(r, text) ==
    /\ pc[r] = "idle"
    /\ \A q \in 1..(r - 1) : pc[q] # "idle"
    /\ IF text = <<>>
       THEN /\ response' = [response EXCEPT ![r] = TranslateResponse(text, text, FALSE)]
            /\ request' = [request EXCEPT ![r] = text]
            /\ pc' = [pc EXCEPT ![r] = "done"]
            /\ UNCHANGED <<frame, stats, last_successful_translation>>
       ELSE ServiceTranslate(r, text)

\* Lines 338-347: POST /translate
TranslateEndpoint(r, text) ==
    /\ pc[r] = "idle"
    /\ \A q \in 1..(r - 1) : pc[q] # "idle"
    /\ IF Strip(text) = <<>>
       THEN /\ response' = [response EXCEPT ![r] = TranslateResponse(text, text, FALSE)]
            /\ request' = [request EXCEPT ![r] = text]
            /\ pc' = [pc EXCEPT ![r] = "done"]
            /\ UNCHANGED <<frame, stats, last_successful_translation>>
       ELSE ServiceTranslate(r, text)

\* The upstream call of request r ends with `raw`.
UpstreamResponds(r, raw) ==
    /\ pc[r] = "calling"
    /\ LET o == CallOpenRouter(raw) IN
       IF o.kind = "return"
       THEN TranslateFinish(r, frame[r], o, stats)
       ELSE LET h == Handle(frame[r], o.exc)
                s == IF h.retried THEN RecordRetry(stats) ELSE stats
            IN  CASE h.next = "break" ->
                        TranslateFinish(r, h.frame, RaiseExhausted(h.frame), s)
                  [] h.next = "sleep" ->
                        /\ pc' = [pc EXCEPT ![r] = "sleeping"]
                        /\ frame' = [frame EXCEPT ![r] = h.frame]
                        /\ stats' = s
                        /\ UNCHANGED <<request, response, last_successful_translation>>
                  [] OTHER -> LoopNext(r, h.frame, s)

\* asyncio.sleep(delay) of request r returns.
SleepReturns(r) ==
    /\ pc[r] = "sleeping"
    /\ LoopNext(r, frame[r], stats)

-----------------------------------------------------------------------------
(* GET /stats and GET /health.  round(x, n) rounds to the nearest multiple *)
(* of 10^-n, a tie going to the even one; success_rate is given in units   *)
(* of 0.0001 and avg_response_time_ms in units of 0.1 ms.                  *)

\* num / den rounded to the nearest multiple of 1 / scale, as an integer
\* count of such multiples.
Round(num, den, scale) ==
    LET q == (num * scale) \div den
        rem == (num * scale) % den
    IN  IF 2 * rem < den THEN q
        ELSE IF 2 * rem > den THEN q + 1
        ELSE IF q % 2 = 0 THEN q ELSE q + 1

StatsEndpoint ==
    [total_requests |-> stats.total_requests,
     successful |-> stats.successful,
     failed |-> stats.failed,
     retries |-> stats.retries,
     fallbacks |-> stats.fallbacks,
     success_rate |->
        IF stats.total_requests > 0
        THEN Round(stats.successful, stats.total_requests, 10000) ELSE 0,
     avg_response_time_ms |->
        IF stats.total_requests > 0
        THEN Round(stats.total_response_time_ms, stats.total_requests, 10) ELSE 0]

HealthEndpoint ==
    [status |-> "ok", last_successful_translation |-> last_successful_translation]

-----------------------------------------------------------------------------
(* The history of one request: every upstream call it issues, every        *)
(* outcome _call_openrouter gives, every asyncio.sleep it starts, and the  *)
(* exception the exhaustion message names.                                 *)

NoOutcome == [kind |-> "none", text |-> <<>>, exc |-> NoException]

CallEv == [ev |-> "call", out |-> NoOutcome, delay |-> 0]

ResultEv(o) == [ev |-> "result", out |-> o, delay |-> 0]

SleepEv(d) == [ev |-> "sleep", out |-> NoOutcome, delay |-> d]

ExhaustedEv(e) == [ev |-> "exhausted", out |-> Raise(e), delay |-> 0]

\* What request r does in this step after `before` happened, read off the
\* state it is left in; last is the exception an exhaustion would name.
Observed(r, before, last) ==
    trace' = [trace EXCEPT ![r] =
                @ \o before \o
                (CASE pc'[r] = "calling" -> <<CallEv>>
                   [] pc'[r] = "sleeping" -> <<SleepEv(frame'[r].delay)>>
                   [] pc'[r] = "done" /\ response'[r].translation_failed
                        -> <<ExhaustedEv(last)>>
                   [] OTHER -> <<>>)]

-----------------------------------------------------------------------------
(* Spec: one translate request on a fresh service, against every upstream  *)
(* answer, with its history.                                               *)

\* The answers the upstream gives in Spec: one of each kind the retry loop
\* tells apart, two texts and two Retry-After values.
SoloResponses ==
    {HttpResponse(200, NoHeader, Completion(<<"a">>)),
     HttpResponse(200, NoHeader, Completion(<<" ", "b", " ">>)),
     HttpResponse(200, NoHeader, Completion(<<" ">>)),
     HttpResponse(402, NoHeader, NoBody),
     HttpResponse(429, NoHeader, NoBody),
     HttpResponse(429, Header(<<"2">>), NoBody),
     TransportFailure("TimeoutException"),
     HttpResponse(500, NoHeader, NoBody),
     HttpResponse(200, NoHeader, NoBody)}

SoloRequest(r) ==
    /\ \A q \in Reqs : pc[q] = "idle"
    /\ \E text \in Texts : TranslateEndpoint(r, text)
    /\ Observed(r, <<>>, NoException)
    /\ UNCHANGED answer

TracedUpstream(r) ==
    \E raw \in SoloResponses :
        /\ UpstreamResponds(r, raw)
        /\ Observed(r, <<ResultEv(CallOpenRouter(raw))>>,
                    Handle(frame[r], CallOpenRouter(raw).exc).frame.last_exception)
        /\ answer' = [answer EXCEPT ![r] = raw]

TracedSleep(r) ==
    /\ SleepReturns(r)
    /\ Observed(r, <<>>, frame[r].last_exception)
    /\ UNCHANGED answer

Next ==
    \E r \in Reqs : SoloRequest(r) \/ TracedUpstream(r) \/ TracedSleep(r)

Spec == Init /\ [][Next]_vars

-----------------------------------------------------------------------------
(* SpecConc: NReq requests in flight at once, interleaved at their         *)
(* suspension points.  The upstream answers with a completion, an HTTP 402 *)
(* or an HTTP 500; no history is kept.                                     *)

ConcResponses ==
    {HttpResponse(200, NoHeader, Completion(<<"b">>)),
     HttpResponse(402, NoHeader, NoBody),
     HttpResponse(500, NoHeader, NoBody)}

ConcTexts == {<<>>, <<" ">>, <<"a">>}

ConcRequest(r) ==
    /\ \E text \in ConcTexts : TranslateEndpoint(r, text)
    /\ UNCHANGED <<trace, answer>>

ConcUpstream(r) ==
    /\ \E raw \in ConcResponses :
            /\ UpstreamResponds(r, raw)
            /\ answer' = [answer EXCEPT ![r] = raw]
    /\ UNCHANGED trace

ConcSleep(r) ==
    /\ SleepReturns(r)
    /\ UNCHANGED <<trace, answer>>

NextConc ==
    \E r \in Reqs : ConcRequest(r) \/ ConcUpstream(r) \/ ConcSleep(r)

SpecConc == Init /\ [][NextConc]_vars

-----------------------------------------------------------------------------
(* SpecUpstream: one translate request on a fresh service, against every   *)
(* shape of upstream answer _call_openrouter tells apart; only the latest  *)
(* answer is kept, no history.                                             *)

AnyRequest(r) ==
    /\ \A q \in Reqs : pc[q] = "idle"
    /\ \E text \in Texts : TranslateEndpoint(r, text)
    /\ UNCHANGED <<trace, answer>>

AnyUpstream(r) ==
    /\ \E raw \in RawResponses :
            /\ UpstreamResponds(r, raw)
            /\ answer' = [answer EXCEPT ![r] = raw]
    /\ UNCHANGED trace

AnySleep(r) ==
    /\ SleepReturns(r)
    /\ UNCHANGED <<trace, answer>>

NextUpstream ==
    \E r \in Reqs : AnyRequest(r) \/ AnyUpstream(r) \/ AnySleep(r)

SpecUpstream == Init /\ [][NextUpstream]_vars

-----------------------------------------------------------------------------
(* FairLoop: one translate request on a fresh service under the scheduling *)
(* the event loop gives.  The upstream answers with one answer for each    *)
(* except clause of the retry loop, or a completion; no history is kept.   *)

LoopResponses ==
    {HttpResponse(200, NoHeader, Completion(<<"a">>)),
     HttpResponse(200, NoHeader, Completion(<<" ">>)),
     HttpResponse(402, NoHeader, NoBody),
     HttpResponse(429, NoHeader, NoBody),
     TransportFailure("TimeoutException"),
     HttpResponse(500, NoHeader, NoBody),
     HttpResponse(200, NoHeader, NoBody)}

LoopRequest(r) ==
    /\ \A q \in Reqs : pc[q] = "idle"
    /\ \E text \in Texts : TranslateEndpoint(r, text)
    /\ UNCHANGED <<trace, answer>>

LoopUpstream(r) ==
    /\ \E raw \in LoopResponses :
            /\ UpstreamResponds(r, raw)
            /\ answer' = [answer EXCEPT ![r] = raw]
    /\ UNCHANGED trace

LoopSleep(r) ==
    /\ SleepReturns(r)
    /\ UNCHANGED <<trace, answer>>

NextLoop ==
    \E r \in Reqs : LoopRequest(r) \/ LoopUpstream(r) \/ LoopSleep(r)

\* The upstream call a request awaits ends (the client has a timeout, line
\* 68), and the sleep it awaits ends.
FairLoop ==
    /\ Init /\ [][NextLoop]_vars
    /\ \A r \in Reqs : WF_vars(LoopUpstream(r)) /\ WF_vars(LoopSleep(r))

-----------------------------------------------------------------------------
(* Reading a request's history                                             *)

IsCall(e) == e.ev = "call"

IsResult(e) == e.ev = "result"

IsSleep(e) == e.ev = "sleep"

\* The number of _call_openrouter invocations of request r.
Calls(r) == Len(SelectSeq(trace[r], IsCall))

\* The outcomes of the upstream calls of request r, in order.
Outcomes(r) ==
    [i \in 1..Len(SelectSeq(trace[r], IsResult)) |->
        SelectSeq(trace[r], IsResult)[i].out]

\* The delays request r has passed to asyncio.sleep, in order.
Delays(r) ==
    [i \in 1..Len(SelectSeq(trace[r], IsSleep)) |->
        SelectSeq(trace[r], IsSleep)[i].delay]

\* "ok" for a returned text, else the class of the exception raised.
KindOf(o) == IF o.kind = "return" THEN "ok" ELSE o.exc.cls

Kinds(r) == [i \in 1..Len(Outcomes(r)) |-> KindOf(Outcomes(r)[i])]

IsPrefix(s, t) == Len(s) <= Len(t) /\ \A i \in 1..Len(s) : s[i] = t[i]

CountOf(seq, S) == Cardinality({i \in 1..Len(seq) : seq[i] \in S})

InFlight(r) == pc[r] \in {"calling", "sleeping"}

\* Request r went through TranslationService.translate and has its response.
Returned(r) == pc[r] = "done" /\ trace[r] # <<>>

Succeeded(r) ==
    /\ pc[r] = "done"
    /\ response[r].kind = "response"
    /\ ~response[r].translation_failed

FellBack(r) ==
    /\ pc[r] = "done"
    /\ response[r].kind = "response"
    /\ response[r].translation_failed
    /\ response[r].translated_text = request[r]
    /\ response[r].original_text = request[r]

-----------------------------------------------------------------------------
(* C1.  Whatever the upstream answers, one translate call makes at most 6  *)
(* upstream calls.                                                         *)

C1_AtMostSixCalls == \A r \in Reqs : Calls(r) <= 6

\* A request that has made its sixth upstream call and got its answer.
C1_Witness ==
    \E r \in Reqs : Calls(r) = 6 /\ Len(Outcomes(r)) = 6 /\ pc[r] = "done"

LastOutcome(r) == Outcomes(r)[Len(Outcomes(r))]

TimeoutClasses == {"TimeoutException", "ReadError", "ConnectError"}

\* NonRetryableUpstream is OpenRouterError itself; the others are Unexpected.
FatalClasses == {"OpenRouterError", "JSONDecodeError", "AttributeError", "ValueError"}

-----------------------------------------------------------------------------
(* C2.  Every response of translate has translation_failed => translated   *)
(* text = original text, and is exactly one of: not failed and carrying    *)
(* the text the successful upstream call returned, or failed and carrying  *)
(* the request's text.                                                     *)

C2_ResponseShape ==
    \A r \in Reqs :
        Returned(r) /\ response[r].kind = "response" =>
            LET rs == response[r]
                ok == /\ ~rs.translation_failed
                      /\ LastOutcome(r).kind = "return"
                      /\ rs.translated_text = LastOutcome(r).text
                fb == /\ rs.translation_failed
                      /\ rs.translated_text = request[r]
            IN  /\ rs.original_text = request[r]
                /\ rs.translation_failed => rs.translated_text = rs.original_text
                /\ ok # fb

\* A request that fell back after at least two upstream calls.
C2_Witness ==
    \E r \in Reqs :
        /\ Returned(r)
        /\ Len(Outcomes(r)) >= 2
        /\ response[r].translation_failed
        /\ response[r].translated_text = request[r]

-----------------------------------------------------------------------------
(* C3.  translate never surfaces an error: a finished request always has   *)
(* a well-formed response, whatever the upstream answered; when the last   *)
(* upstream call failed the response is the fallback (translation_failed,  *)
(* original text echoed), and translation_failed is set exactly when       *)
(* _retry_translate ended exhausted.                                       *)

C3_NoErrorSurfaces ==
    \A r \in Reqs :
        /\ pc[r] = "done" => response[r].kind = "response"
        /\ pc[r] # "done" => response[r].kind = "none"
        /\ Returned(r) /\ LastOutcome(r).kind = "raise" => FellBack(r)
        /\ Returned(r) =>
            (response[r].translation_failed
                <=> trace[r][Len(trace[r])].ev = "exhausted")

\* A request whose first upstream answer was not JSON (an unexpected error).
C3_Witness ==
    \E r \in Reqs :
        /\ Returned(r)
        /\ Kinds(r) = <<"JSONDecodeError">>
        /\ FellBack(r)

-----------------------------------------------------------------------------
(* C4.  The per-kind retry counters are independent: while a request is in *)
(* flight each counter equals the number of failures of its own kind, and  *)
(* a request answered RateLimited three times, EmptyResponse twice and     *)
(* then with a completion keeps going after every one of those failures    *)
(* and ends in success with the returned text.                             *)

Scenario4 ==
    << "RateLimitError", "RateLimitError", "RateLimitError",
       "EmptyResponseError", "EmptyResponseError", "ok" >>

C4_IndependentCounters ==
    \A r \in Reqs :
        /\ InFlight(r) =>
            /\ frame[r].empty_retries = CountOf(Kinds(r), {"EmptyResponseError"})
            /\ frame[r].payment_retries = CountOf(Kinds(r), {"PaymentError"})
            /\ frame[r].rate_limit_retries = CountOf(Kinds(r), {"RateLimitError"})
            /\ frame[r].timeout_retries = CountOf(Kinds(r), TimeoutClasses)
        /\ trace[r] # <<>> /\ IsPrefix(Kinds(r), Scenario4) =>
            IF Len(Kinds(r)) < Len(Scenario4)
            THEN InFlight(r)
            ELSE /\ Succeeded(r)
                 /\ response[r].translated_text = LastOutcome(r).text

C4_Witness ==
    \E r \in Reqs : Kinds(r) = Scenario4 /\ Succeeded(r)

-----------------------------------------------------------------------------
(* C5.  The sleep that follows a RateLimited failure is exactly that       *)
(* failure's retry_after; answered RateLimited with retry_after 2 three    *)
(* times and then with a completion, a request makes 4 upstream calls,     *)
(* sleeps [2, 2, 2] and succeeds on attempt 4.                             *)

RateLimited2 == Raise(RateLimitError(2))

IsScenario5(outs) ==
    /\ Len(outs) <= 4
    /\ \A i \in 1..Len(outs) :
        IF i <= 3 THEN outs[i] = RateLimited2 ELSE outs[i].kind = "return"

C5_RetryAfterHonoured ==
    \A r \in Reqs :
        /\ \A i \in 1..(Len(trace[r]) - 1) :
            IsResult(trace[r][i]) /\ KindOf(trace[r][i].out) = "RateLimitError" =>
                \/ trace[r][i + 1].ev = "exhausted"
                \/ /\ trace[r][i + 1].ev = "sleep"
                   /\ trace[r][i + 1].delay = trace[r][i].out.exc.retry_after
        /\ trace[r] # <<>> /\ IsScenario5(Outcomes(r)) =>
            IF Len(Outcomes(r)) < 4
            THEN /\ InFlight(r)
                 /\ Delays(r) = [i \in 1..Len(Outcomes(r)) |-> 2]
            ELSE /\ Succeeded(r)
                 /\ Calls(r) = 4
                 /\ Delays(r) = <<2, 2, 2>>

C5_Witness ==
    \E r \in Reqs :
        /\ Len(Outcomes(r)) = 4
        /\ IsScenario5(Outcomes(r))
        /\ Succeeded(r)
        /\ Delays(r) = <<2, 2, 2>>

-----------------------------------------------------------------------------
(* C6.  Answered EmptyResponse on every attempt, a request keeps retrying  *)
(* through five failures, is exhausted by the sixth after exactly 6        *)
(* upstream calls, has added exactly 5 to the retries counter, and its     *)
(* response echoes the original text with translation_failed set.          *)

AllEmpty(r) ==
    /\ trace[r] # <<>>
    /\ \A i \in 1..Len(Kinds(r)) : Kinds(r)[i] = "EmptyResponseError"

C6_AlwaysEmpty ==
    \A r \in Reqs :
        AllEmpty(r) =>
            IF Len(Kinds(r)) < 6
            THEN InFlight(r) /\ stats.retries = Len(Kinds(r))
            ELSE /\ Len(Kinds(r)) = 6
                 /\ Calls(r) = 6
                 /\ FellBack(r)
                 /\ stats.retries = 5
                 /\ stats.fallbacks = 1

C6_Witness ==
    \E r \in Reqs : AllEmpty(r) /\ Len(Kinds(r)) = 6 /\ FellBack(r)

-----------------------------------------------------------------------------
(* C7.  A NonRetryableUpstream or Unexpected failure ends the retry loop   *)
(* at the attempt where it occurs: it is the request's last upstream call, *)
(* no sleep follows it and no retry is recorded for it; on attempt 1 the   *)
(* request ends after exactly 1 upstream call with no delay.               *)

C7_FatalEndsLoop ==
    \A r \in Reqs :
        \A i \in 1..Len(trace[r]) :
            IsResult(trace[r][i]) /\ KindOf(trace[r][i].out) \in FatalClasses =>
                /\ i + 1 = Len(trace[r])
                /\ trace[r][i + 1].ev = "exhausted"
                /\ FellBack(r)
                /\ Calls(r) = Len(Outcomes(r))
                /\ Len(Delays(r)) <= Len(Outcomes(r)) - 1
                /\ stats.retries = Len(Outcomes(r)) - 1

\* A fatal failure on attempt 1: one upstream call, no delay, no retry.
C7_Witness ==
    \E r \in Reqs :
        /\ Kinds(r) = <<"OpenRouterError">>
        /\ pc[r] = "done"
        /\ Calls(r) = 1
        /\ Delays(r) = <<>>
        /\ stats.retries = 0

-----------------------------------------------------------------------------
(* Counting requests by what became of them                                *)

\* Request r was handed to TranslationService.translate.
EnteredService(r) == pc[r] # "idle" /\ Strip(request[r]) # <<>>

Started == {r \in Reqs : EnteredService(r)}

Completed == {r \in Started : pc[r] = "done"}

SucceededCalls == {r \in Completed : Succeeded(r)}

ExhaustedCalls == {r \in Completed : FellBack(r)}

\* No request is suspended in an upstream call or a sleep.
Quiet == \A r \in Reqs : ~InFlight(r)

\* The retries request r has scheduled, by its own counters.
RetriesOf(r) ==
    frame[r].empty_retries + frame[r].payment_retries
        + frame[r].rate_limit_retries + frame[r].timeout_retries

RECURSIVE SumOver(_, _)
SumOver(S, n) ==
    IF n = 0 THEN 0
    ELSE IF n \in S THEN RetriesOf(n) + SumOver(S, n - 1)
    ELSE SumOver(S, n - 1)

\* The totals n elapsed times can add up to.
RECURSIVE ElapsedSums(_)
ElapsedSums(n) ==
    IF n = 0 THEN {0}
    ELSE {a + b : a \in ElapsedSums(n - 1), b \in ElapsedMs}

Abs(x) == IF x < 0 THEN -x ELSE x

-----------------------------------------------------------------------------
(* C8.  Once N succeeding and M exhausted translate calls, interleaved in  *)
(* any way, have all returned, GET /stats shows total_requests = N + M,    *)
(* successful = N, fallbacks = M, and success_rate = N / (N + M) rounded   *)
(* to four decimal places.                                                 *)

CountersMatch ==
    /\ Completed = SucceededCalls \cup ExhaustedCalls
    /\ StatsEndpoint.total_requests
            = Cardinality(SucceededCalls) + Cardinality(ExhaustedCalls)
    /\ StatsEndpoint.successful = Cardinality(SucceededCalls)
    /\ StatsEndpoint.fallbacks = Cardinality(ExhaustedCalls)
    /\ StatsEndpoint.failed = Cardinality(ExhaustedCalls)

C8_StatsAfterAllReturned ==
    Quiet =>
        /\ CountersMatch
        /\ Completed # {} =>
            2 * Abs(StatsEndpoint.success_rate * Cardinality(Completed)
                        - 10000 * Cardinality(SucceededCalls))
                <= Cardinality(Completed)

\* One call succeeded and two were exhausted: the rate is 0.3333.
C8_Witness ==
    /\ Quiet
    /\ Cardinality(SucceededCalls) = 1
    /\ Cardinality(ExhaustedCalls) = 2
    /\ StatsEndpoint.success_rate = 3333

\* C8 as stated: success_rate is N / (N + M) itself.
C8_ExactRate ==
    Quiet =>
        /\ CountersMatch
        /\ Completed # {} =>
            StatsEndpoint.success_rate * Cardinality(Completed)
                = 10000 * Cardinality(SucceededCalls)

-----------------------------------------------------------------------------
(* C9.  translate counts total_requests when the call starts and a retry   *)
(* when it is scheduled; successful, or failed and fallbacks, the response *)
(* time and last_successful_translation are written exactly once per call, *)
(* when it completes.  At every moment the shared stats are: one request   *)
(* per started call, the retries every call has scheduled so far, and one  *)
(* outcome and one response time per completed call.                       *)

C9_StatsPerCall ==
    /\ stats.total_requests = Cardinality(Started)
    /\ stats.retries = SumOver(Started, NReq)
    /\ stats.successful = Cardinality(SucceededCalls)
    /\ stats.failed = Cardinality(ExhaustedCalls)
    /\ stats.fallbacks = Cardinality(ExhaustedCalls)
    /\ stats.total_response_time_ms \in ElapsedSums(Cardinality(Completed))
    /\ Completed = SucceededCalls \cup ExhaustedCalls
    /\ last_successful_translation # None <=> SucceededCalls # {}

\* One call has completed while another sleeps before its second retry.
C9_Witness ==
    \E r, q \in Reqs :
        /\ pc[r] = "sleeping"
        /\ RetriesOf(r) = 2
        /\ q \in Completed
        /\ stats.total_requests >= 2

\* C9 as stated: the stats hold nothing of a call that has not completed.
C9_OnlyCompletedCalls ==
    /\ stats.total_requests = Cardinality(Completed)
    /\ stats.retries = SumOver(Completed, NReq)
    /\ stats.successful = Cardinality(SucceededCalls)
    /\ stats.failed = Cardinality(ExhaustedCalls)
    /\ stats.fallbacks = Cardinality(ExhaustedCalls)
    /\ stats.total_response_time_ms \in ElapsedSums(Cardinality(Completed))

-----------------------------------------------------------------------------
(* C10.  A request whose text is empty or whitespace-only is answered in   *)
(* the one step that takes it: it never waits for an upstream call, its    *)
(* response echoes the text unchanged with translation_failed = false, and *)
(* the stats and last_successful_translation stay as they were.            *)

C10_BlankBypasses ==
    [][\A r \in Reqs :
        pc[r] = "idle" /\ pc'[r] # "idle" /\ Strip(request'[r]) = <<>> =>
            /\ pc'[r] = "done"
            /\ response'[r] = TranslateResponse(request'[r], request'[r], FALSE)
            /\ frame'[r] = frame[r]
            /\ stats' = stats
            /\ last_successful_translation' = last_successful_translation]_vars

\* A whitespace-only request answered after a call that succeeded.
C10_Witness ==
    \E r, q \in Reqs :
        /\ pc[r] = "done"
        /\ request[r] = <<" ">>
        /\ response[r] = TranslateResponse(<<" ">>, <<" ">>, FALSE)
        /\ q < r
        /\ q \in SucceededCalls
        /\ stats.total_requests >= 1

-----------------------------------------------------------------------------
(* C11.  A successful upstream call ends the request at once, whatever the *)
(* attempt: it is the last thing the request does (no further call, no     *)
(* sleep), the response carries the returned text with translation_failed  *)
(* false, and only the failures before it were counted as retries; when    *)
(* the first attempt succeeds the request made exactly 1 upstream call and *)
(* the retries counter is unchanged.                                       *)

C11_SuccessEndsRequest ==
    \A r \in Reqs :
        \A i \in 1..Len(trace[r]) :
            IsResult(trace[r][i]) /\ trace[r][i].out.kind = "return" =>
                /\ i = Len(trace[r])
                /\ Succeeded(r)
                /\ response[r].translated_text = trace[r][i].out.text
                /\ Calls(r) = Len(Outcomes(r))
                /\ Len(Delays(r)) <= Len(Outcomes(r)) - 1
                /\ stats.retries = Len(Outcomes(r)) - 1
                /\ Len(Outcomes(r)) = 1 => Calls(r) = 1 /\ stats.retries = 0

\* A request whose first upstream call succeeded.
C11_Witness ==
    \E r \in Reqs :
        /\ Kinds(r) = <<"ok">>
        /\ Succeeded(r)
        /\ Calls(r) = 1
        /\ stats.retries = 0

-----------------------------------------------------------------------------
(* C12.  last_successful_translation is changed only by a translate call   *)
(* that returns with translation_failed false: a call that ends exhausted  *)
(* leaves it as it was, and /health reports it as null as long as no call  *)
(* has completed successfully.                                             *)

C12_OnlySuccessStamps ==
    /\ [](SucceededCalls = {} => HealthEndpoint.last_successful_translation = None)
    /\ [][/\ last_successful_translation' # last_successful_translation =>
                \E r \in Reqs :
                    /\ pc[r] # "done"
                    /\ pc'[r] = "done"
                    /\ response'[r].kind = "response"
                    /\ ~response'[r].translation_failed
          /\ \A r \in Reqs :
                pc[r] # "done" /\ pc'[r] = "done" /\ response'[r].translation_failed
                    => last_successful_translation' = last_successful_translation
         ]_vars

\* One call has succeeded and another has ended exhausted.
C12_Witness ==
    /\ SucceededCalls # {}
    /\ ExhaustedCalls # {}
    /\ last_successful_translation # None

-----------------------------------------------------------------------------
(* C13.  When every upstream call returns and every sleep finishes, every  *)
(* translate call that was started returns, and it returns either the      *)
(* success response or the fallback response of an exhausted request: no   *)
(* request stays suspended for ever.                                       *)

C13_EveryCallReturns ==
    \A r \in Reqs :
        InFlight(r) ~> (pc[r] = "done" /\ (Succeeded(r) \/ FellBack(r)))

\* A request that has returned from its sixth attempt, after retries of two
\* kinds.
C13_Witness ==
    \E r \in Reqs :
        /\ pc[r] = "done"
        /\ frame[r].attempt = max_total_attempts - 1
        /\ frame[r].empty_retries > 0
        /\ frame[r].timeout_retries > 0
        /\ Succeeded(r) \/ FellBack(r)

-----------------------------------------------------------------------------
(* C14.  Answered EmptyResponse, RateLimited, EmptyResponse and then with  *)
(* a completion, a request has used 2 units of the EmptyResponse budget    *)
(* (sleeping 1 and 2 seconds) and 1 unit of the RateLimited budget, none   *)
(* of the others, and succeeds on attempt 4.                               *)

Scenario14 ==
    << "EmptyResponseError", "RateLimitError", "EmptyResponseError", "ok" >>

C14_BudgetsConsumed ==
    \A r \in Reqs :
        Kinds(r) = Scenario14 =>
            /\ frame[r].empty_retries = 2
            /\ frame[r].rate_limit_retries = 1
            /\ frame[r].payment_retries = 0
            /\ frame[r].timeout_retries = 0
            /\ Delays(r) = <<1, Outcomes(r)[2].exc.retry_after, 2>>
            /\ Succeeded(r)
            /\ Calls(r) = 4
            /\ frame[r].attempt = 3

C14_Witness ==
    \E r \in Reqs : Kinds(r) = Scenario14 /\ Succeeded(r) /\ Calls(r) = 4

\* The same request having used 1 unit of the EmptyResponse budget.
C14_OneUnitEach ==
    \A r \in Reqs :
        Kinds(r) = Scenario14 =>
            /\ frame[r].empty_retries = 1
            /\ frame[r].rate_limit_retries = 1
            /\ Succeeded(r)
            /\ Calls(r) = 4

-----------------------------------------------------------------------------
(* C15.  What a translate call has added to the retries counter when it    *)
(* returns is the number of upstream calls it made minus one, so at most   *)
(* 5, and every retry it recorded was followed by another upstream call    *)
(* of the same request.                                                    *)

C15_RetriesAreCallsMinusOne ==
    \A r \in Reqs :
        /\ Returned(r) => stats.retries = Calls(r) - 1 /\ stats.retries <= 5
        /\ \A i \in 1..(Len(trace[r]) - 1) :
            IsSleep(trace[r][i]) => IsCall(trace[r][i + 1])

-----------------------------------------------------------------------------
(* C16.  A failure of kind K met when K's counter is at its maximum        *)
(* (EmptyResponse 5, PaymentRequired 3, RateLimited 3, TransientConnection *)
(* 3) exhausts the request at once: it is the last upstream call, nothing  *)
(* is slept and no retry is recorded for it, however few attempts were     *)
(* used; a fourth RateLimited failure exhausts after exactly 4 calls.      *)

\* The failures of the classes S among the outcomes request r had before
\* event i of its history.
PriorOf(r, i, S) ==
    Cardinality({j \in 1..(i - 1) :
                    IsResult(trace[r][j]) /\ KindOf(trace[r][j].out) \in S})

Budgets ==
    {[classes |-> {"EmptyResponseError"}, max |-> 5],
     [classes |-> {"PaymentError"}, max |-> 3],
     [classes |-> {"RateLimitError"}, max |-> 3],
     [classes |-> TimeoutClasses, max |-> 3]}

FourRateLimited ==
    << "RateLimitError", "RateLimitError", "RateLimitError", "RateLimitError" >>

C16_BudgetSpentExhausts ==
    \A r \in Reqs :
        /\ \A i \in 1..Len(trace[r]) : \A b \in Budgets :
            /\ IsResult(trace[r][i])
            /\ KindOf(trace[r][i].out) \in b.classes
            /\ PriorOf(r, i, b.classes) = b.max
            => /\ i + 1 = Len(trace[r])
               /\ trace[r][i + 1].ev = "exhausted"
               /\ FellBack(r)
               /\ Calls(r) = Len(Outcomes(r))
               /\ Len(Delays(r)) <= Len(Outcomes(r)) - 1
               /\ stats.retries = Len(Outcomes(r)) - 1
        /\ trace[r] # <<>> /\ IsPrefix(Kinds(r), FourRateLimited) =>
            IF Len(Kinds(r)) < 4
            THEN InFlight(r)
            ELSE FellBack(r) /\ Calls(r) = 4 /\ stats.retries = 3

\* A fourth RateLimited failure on attempt 4.
C16_Witness ==
    \E r \in Reqs :
        /\ Kinds(r) = FourRateLimited
        /\ FellBack(r)
        /\ Calls(r) = 4
        /\ Len(Delays(r)) = 3

-----------------------------------------------------------------------------
(* C17.  The delay of a retry comes from the schedule of the kind that     *)
(* failed, indexed by that kind's own failures so far, whatever failures   *)
(* of other kinds lie in between: the k-th EmptyResponse failure is        *)
(* followed by a sleep of 1, 2, 4, 8, 16 seconds for k = 1..5, each of the *)
(* first three PaymentRequired failures by a sleep of 5 seconds, and a     *)
(* TransientConnection failure by no sleep at all.                         *)

EmptySchedule == <<1, 2, 4, 8, 16>>

Interleaved ==
    << "EmptyResponseError", "PaymentError", "EmptyResponseError",
       "TimeoutException", "EmptyResponseError" >>

C17_DelayFromOwnSchedule ==
    \A r \in Reqs : \A i \in 1..Len(trace[r]) :
        IsResult(trace[r][i]) =>
            LET cls == KindOf(trace[r][i].out)
                k == PriorOf(r, i, {cls}) + 1
                nxt == trace[r][i + 1]
            IN  /\ cls = "EmptyResponseError" /\ k <= 5 =>
                    nxt.ev = "sleep" /\ nxt.delay = EmptySchedule[k]
                /\ cls = "PaymentError" /\ k <= 3 =>
                    nxt.ev = "sleep" /\ nxt.delay = 5
                /\ cls \in TimeoutClasses =>
                    nxt.ev \in {"call", "exhausted"}

\* Three EmptyResponse failures with a PaymentRequired and a
\* TransientConnection failure in between: the sleeps are 1, 5, 2, 4.
C17_Witness ==
    \E r \in Reqs :
        /\ Len(Kinds(r)) >= 5
        /\ SubSeq(Kinds(r), 1, 5) = Interleaved
        /\ Len(Delays(r)) >= 4
        /\ SubSeq(Delays(r), 1, 4) = <<1, 5, 2, 4>>

-----------------------------------------------------------------------------
(* How an upstream answer was classified, read off the request it was      *)
(* given to.                                                               *)

\* The failure kind an exception of _call_openrouter stands for.
FailureKind(e) ==
    CASE e.cls = "EmptyResponseError" -> "EmptyResponse"
      [] e.cls = "PaymentError" -> "PaymentRequired"
      [] e.cls = "RateLimitError" -> "RateLimited"
      [] e.cls \in TimeoutClasses -> "TransientConnection"
      [] e.cls = "OpenRouterError" -> "NonRetryableUpstream"
      [] OTHER -> "Unexpected"

\* Request r has had an upstream answer, and its latest one was a failure.
LastAnswerFailed(r) == answer[r] # NoAnswer /\ ~Succeeded(r)

\* The latest failure of request r was retried unless the budget behind
\* `counter` was spent: a retry was scheduled, or the request ended with
\* the counter at `max` or on its last attempt.
RetriedUnder(r, counter, max) ==
    \/ pc[r] \in {"sleeping", "calling"}
    \/ /\ FellBack(r)
       /\ counter = max \/ frame[r].attempt = 5

\* The latest failure of request r ended the request with no retry.
NotRetried(r) ==
    /\ FellBack(r)
    /\ stats.retries = frame[r].attempt

-----------------------------------------------------------------------------
(* C18.  An HTTP 429 answer is a RateLimited failure whose retry_after is  *)
(* the parsed Retry-After header, and 5 seconds when the header is absent  *)
(* or cannot be parsed; in every case it is retried under the RateLimited  *)
(* budget, sleeping retry_after.                                           *)

RetryAfterExpected(header) ==
    IF header.present /\ ParseFloat(header.value).ok
    THEN ParseFloat(header.value).value
    ELSE 5

C18_429IsRateLimited ==
    \A r \in Reqs :
        answer[r].transport = "ok" /\ answer[r].status = 429 =>
            /\ frame[r].last_exception
                = RateLimitError(RetryAfterExpected(answer[r].header))
            /\ RetriedUnder(r, frame[r].rate_limit_retries, 3)
            /\ pc[r] = "sleeping" =>
                frame[r].delay = RetryAfterExpected(answer[r].header)

-----------------------------------------------------------------------------
(* C19.  An upstream attempt is classified by its transport outcome and    *)
(* HTTP status, whatever the body: a connect, timeout or read error is     *)
(* TransientConnection, status 402 PaymentRequired, status 429             *)
(* RateLimited, any other status >= 400 NonRetryableUpstream; a failure    *)
(* that is Unexpected is not retried.                                      *)

KindByStatus(raw) ==
    IF raw.transport # "ok" THEN "TransientConnection"
    ELSE IF raw.status = 402 THEN "PaymentRequired"
    ELSE IF raw.status = 429 THEN "RateLimited"
    ELSE "NonRetryableUpstream"

C19_ClassifiedByStatus ==
    \A r \in Reqs :
        /\ answer[r] # NoAnswer
           /\ (answer[r].transport # "ok" \/ answer[r].status >= 400)
           => FailureKind(frame[r].last_exception) = KindByStatus(answer[r])
        /\ LastAnswerFailed(r)
           /\ FailureKind(frame[r].last_exception) = "Unexpected"
           => NotRetried(r)

-----------------------------------------------------------------------------
(* C20.  An answer with HTTP status 200 whose body holds an error object   *)
(* is classified by the object's code: 402 is PaymentRequired and 429 is   *)
(* RateLimited, each retried under its budget, and any other code is       *)
(* NonRetryableUpstream and not retried, also when the body holds a valid  *)
(* choices array beside the error.                                         *)

HasErrorObject(raw) ==
    /\ raw.transport = "ok"
    /\ raw.status = 200
    /\ raw.body.valid_json
    /\ raw.body.error_kind = "object"

C20_EmbeddedErrorObject ==
    \A r \in Reqs :
        HasErrorObject(answer[r]) =>
            LET kind == FailureKind(frame[r].last_exception) IN
            IF answer[r].body.error_code = 402
            THEN /\ kind = "PaymentRequired"
                 /\ RetriedUnder(r, frame[r].payment_retries, 3)
                 /\ pc[r] = "sleeping" => frame[r].delay = 5
            ELSE IF answer[r].body.error_code = 429
            THEN /\ kind = "RateLimited"
                 /\ RetriedUnder(r, frame[r].rate_limit_retries, 3)
                 /\ pc[r] = "sleeping" => frame[r].delay = 5
            ELSE kind = "NonRetryableUpstream" /\ NotRetried(r)

\* A second attempt answered 200 with an error object of code 500 beside a
\* valid choices array.
C20_Witness ==
    \E r \in Reqs :
        /\ HasErrorObject(answer[r])
        /\ answer[r].body.error_code = 500
        /\ answer[r].body.has_choices
        /\ answer[r].body.choices # <<>>
        /\ frame[r].attempt = 1
        /\ FellBack(r)

-----------------------------------------------------------------------------
(* C21.  An answer with HTTP status 200 whose body parses and holds no     *)
(* error is an EmptyResponse failure, retried under the EmptyResponse      *)
(* budget, when it has no choices or its first choice's content is empty   *)
(* after trimming; otherwise the call returns the trimmed content, which   *)
(* is not empty.                                                           *)

ParsedWithoutError(raw) ==
    /\ raw.transport = "ok"
    /\ raw.status = 200
    /\ raw.body.valid_json
    /\ raw.body.error_kind = "absent"

HasFirstChoice(raw) == raw.body.has_choices /\ raw.body.choices # <<>>

\* The answer was handled as an EmptyResponse failure.
HandledAsEmpty(r) ==
    /\ LastAnswerFailed(r)
    /\ FailureKind(frame[r].last_exception) = "EmptyResponse"
    /\ RetriedUnder(r, frame[r].empty_retries, 5)
    /\ pc[r] = "sleeping" => frame[r].delay = EmptySchedule[frame[r].empty_retries]

\* The answer ended the request with the trimmed text `content`.
ReturnedText(r, content) ==
    /\ Succeeded(r)
    /\ content # <<>>
    /\ response[r].translated_text = content

\* A JSON null content is taken as the claim's reader pleases: as empty, or
\* as a content to return.
C21_EmptyOrContent ==
    \A r \in Reqs :
        ParsedWithoutError(answer[r]) =>
            IF ~HasFirstChoice(answer[r])
            THEN HandledAsEmpty(r)
            ELSE LET c == answer[r].body.choices[1] IN
                 IF c.content_kind = "null"
                 THEN HandledAsEmpty(r) \/ Succeeded(r)
                 ELSE IF Strip(ContentOf(c)) = <<>>
                 THEN HandledAsEmpty(r)
                 ELSE ReturnedText(r, Strip(ContentOf(c)))

-----------------------------------------------------------------------------
(* C22.  The attempts of one request are strictly sequential: at most one  *)
(* upstream call of the request is outstanding at any time; a call is      *)
(* issued only by the arrival of the request, by the end of a sleep, or    *)
(* in the step that classified the previous call's outcome as a failure    *)
(* retried without delay; and a step that schedules a delay issues no      *)
(* call.                                                                   *)

\* The calls of request r that have no outcome yet.
Outstanding(r) == Calls(r) - Len(Outcomes(r))

SequentialHistory(r) ==
    /\ Outstanding(r) = (IF pc[r] = "calling" THEN 1 ELSE 0)
    /\ \A i \in 1..Len(trace[r]) :
        /\ IsCall(trace[r][i]) /\ i > 1 =>
            \/ /\ IsSleep(trace[r][i - 1])
               /\ IsResult(trace[r][i - 2])
               /\ trace[r][i - 2].out.kind = "raise"
            \/ /\ IsResult(trace[r][i - 1])
               /\ KindOf(trace[r][i - 1].out) \in TimeoutClasses
        /\ IsResult(trace[r][i]) => i > 1 /\ IsCall(trace[r][i - 1])
        /\ IsSleep(trace[r][i]) => i > 1 /\ IsResult(trace[r][i - 1])

C22_SequentialAttempts ==
    /\ [](\A r \in Reqs : SequentialHistory(r))
    /\ [][\A r \in Reqs :
            /\ Calls(r)' > Calls(r) =>
                /\ Calls(r)' = Calls(r) + 1
                /\ Outstanding(r) = (IF pc[r] = "calling" THEN 1 ELSE 0)
                /\ pc[r] \in {"idle", "sleeping"}
                   \/ /\ pc[r] = "calling"
                      /\ Len(Outcomes(r))' = Len(Outcomes(r)) + 1
                      /\ Len(Delays(r))' = Len(Delays(r))
            /\ Len(Delays(r))' > Len(Delays(r)) =>
                /\ pc'[r] = "sleeping"
                /\ Calls(r)' = Calls(r)
         ]_vars

\* A request issuing its third call: one retry slept, one did not.
C22_Witness ==
    \E r \in Reqs :
        /\ pc[r] = "calling"
        /\ Calls(r) = 3
        /\ Kinds(r) = << "PaymentError", "TimeoutException" >>
        /\ Delays(r) = <<5>>

-----------------------------------------------------------------------------
(* C23.  The retry budgets belong to one translate call: a call starts     *)
(* with its four counters at zero, a step of one request leaves the        *)
(* locals and the response of every other request alone, and with          *)
(* requests in flight together the counters, the delay and the response    *)
(* of a request follow from its own upstream answers alone (in SpecConc:   *)
(* HTTP 402 on every attempt before the latest answer), whatever the       *)
(* other requests have met.                                                *)

Ok23 == HttpResponse(200, NoHeader, Completion(<<"b">>))

Payment23 == HttpResponse(402, NoHeader, NoBody)

Fatal23 == HttpResponse(500, NoHeader, NoBody)

\* The locals of request r are what its own answers make them.
OwnSequenceOnly(r) ==
    LET f == frame[r] IN
    /\ pc[r] = "idle" => f = InitFrame
    /\ EnteredService(r) =>
        /\ f.empty_retries = 0 /\ f.rate_limit_retries = 0 /\ f.timeout_retries = 0
        /\ pc[r] = "calling" => f.payment_retries = f.attempt
        /\ pc[r] = "sleeping" =>
            /\ answer[r] = Payment23
            /\ f.payment_retries = f.attempt + 1
            /\ f.delay = 5
        /\ pc[r] = "done" =>
            CASE answer[r] = Ok23 ->
                    /\ Succeeded(r)
                    /\ response[r].translated_text = <<"b">>
                    /\ f.payment_retries = f.attempt
              [] answer[r] = Fatal23 ->
                    FellBack(r) /\ f.payment_retries = f.attempt
              [] OTHER ->
                    /\ answer[r] = Payment23
                    /\ FellBack(r)
                    /\ f.payment_retries = 3
                    /\ f.attempt = 3

Locals(r) == <<pc[r], request[r], frame[r], response[r], answer[r]>>

C23_BudgetsOwnedByCall ==
    /\ [](\A r \in Reqs : OwnSequenceOnly(r))
    /\ [][/\ \A r \in Reqs :
                pc[r] = "idle" /\ pc'[r] = "calling" => frame'[r] = InitFrame
          /\ \A r, q \in Reqs :
                r # q /\ Locals(q)' # Locals(q) => Locals(r)' = Locals(r)
         ]_vars

\* One request ends on its fourth 402 while another, which had a 402
\* itself, is still in flight.
C23_Witness ==
    \E r, q \in Reqs :
        /\ r # q
        /\ pc[r] = "done"
        /\ answer[r] = Payment23
        /\ frame[r].payment_retries = 3
        /\ InFlight(q)
        /\ frame[q].payment_retries > 0

-----------------------------------------------------------------------------
(* C24.  The retry loop is a function of the upstream outcomes: the delays *)
(* a request has slept, the number of upstream calls it has made and how   *)
(* it ended (success with the returned text, or exhausted) are those the   *)
(* sequence of its outcomes, retry_after values included, determines, so   *)
(* two runs fed the same sequence agree on all three.                      *)

PriorIn(outs, i, S) == Cardinality({j \in 1..(i - 1) : KindOf(outs[j]) \in S})

\* Outcome i is a failure whose kind has budget left.
RetriedAt(outs, i) ==
    /\ outs[i].kind = "raise"
    /\ \E b \in Budgets :
        /\ KindOf(outs[i]) \in b.classes
        /\ PriorIn(outs, i, b.classes) < b.max

SleepsAt(outs, i) == RetriedAt(outs, i) /\ KindOf(outs[i]) \notin TimeoutClasses

DelayAt(outs, i) ==
    CASE KindOf(outs[i]) = "EmptyResponseError" ->
            EmptySchedule[PriorIn(outs, i, {"EmptyResponseError"}) + 1]
      [] KindOf(outs[i]) = "PaymentError" -> 5
      [] OTHER -> outs[i].exc.retry_after

\* The delays the first n outcomes of outs lead to.
RECURSIVE DelaysFor(_, _)
DelaysFor(outs, n) ==
    IF n = 0 THEN <<>>
    ELSE DelaysFor(outs, n - 1)
            \o (IF SleepsAt(outs, n) THEN <<DelayAt(outs, n)>> ELSE <<>>)

\* How a run that has had the outcomes outs stands.
EndFor(outs) ==
    LET n == Len(outs) IN
    IF n = 0 THEN "running"
    ELSE IF outs[n].kind = "return" THEN "success"
    ELSE IF ~RetriedAt(outs, n) THEN "exhausted"
    ELSE IF n = 6 THEN "last"
    ELSE "running"

C24_FunctionOfOutcomes ==
    \A r \in Reqs :
        trace[r] # <<>> =>
            LET outs == Outcomes(r)
                n == Len(outs)
            IN  /\ Delays(r) = DelaysFor(outs, n)
                /\ CASE EndFor(outs) = "success" ->
                            /\ Succeeded(r)
                            /\ response[r].translated_text = outs[n].text
                            /\ Calls(r) = n
                     [] EndFor(outs) = "exhausted" ->
                            FellBack(r) /\ Calls(r) = n
                     [] EndFor(outs) = "last" ->
                            /\ Calls(r) = n
                            /\ pc[r] = "sleeping" \/ FellBack(r)
                            /\ pc[r] = "sleeping" => SleepsAt(outs, n)
                     [] OTHER ->
                            /\ InFlight(r)
                            /\ Calls(r) = (IF pc[r] = "calling" THEN n + 1 ELSE n)

\* A run of four outcomes with both retry_after values that has ended.
C24_Witness ==
    \E r \in Reqs :
        /\ Len(Outcomes(r)) = 4
        /\ Outcomes(r)[1] = Raise(RateLimitError(2))
        /\ Outcomes(r)[2] = Raise(RateLimitError(5))
        /\ Kinds(r)[3] = "EmptyResponseError"
        /\ Delays(r) = <<2, 5, 1>>
        /\ pc[r] = "done"

-----------------------------------------------------------------------------
(* C25.  The cap of 6 attempts can exhaust a request while no kind's       *)
(* counter has reached its maximum: answered EmptyResponse twice,          *)
(* PaymentRequired twice and RateLimited twice, a request makes no seventh *)
(* call and ends exhausted after 6 upstream calls with every counter below *)
(* its maximum.                                                            *)

Scenario25 ==
    << "EmptyResponseError", "EmptyResponseError", "PaymentError",
       "PaymentError", "RateLimitError", "RateLimitError" >>

BelowEveryMaximum(f) ==
    /\ f.empty_retries < 5
    /\ f.payment_retries < 3
    /\ f.rate_limit_retries < 3
    /\ f.timeout_retries < 3

C25_CapExhaustsFirst ==
    \A r \in Reqs :
        Kinds(r) = Scenario25 =>
            /\ Calls(r) = 6
            /\ BelowEveryMaximum(frame[r])
            /\ pc[r] # "calling"
            /\ pc[r] = "done" => FellBack(r)
            /\ \A i \in 1..Len(trace[r]) :
                IsResult(trace[r][i]) =>
                    \A b \in Budgets :
                        KindOf(trace[r][i].out) \in b.classes =>
                            PriorOf(r, i, b.classes) < b.max

C25_Witness ==
    \E r \in Reqs :
        /\ Kinds(r) = Scenario25
        /\ FellBack(r)
        /\ Calls(r) = 6
        /\ frame[r].empty_retries = 2
        /\ frame[r].payment_retries = 2
        /\ frame[r].rate_limit_retries = 2

-----------------------------------------------------------------------------
(* C26.  When a request ends exhausted, the failure named with the         *)
(* exhaustion is the failure of the last upstream call the request made,   *)
(* and translate meets the exhaustion as TranslationExhaustedError, which  *)
(* it catches: the response is the fallback, never the underlying failure. *)

C26_LastFailureReported ==
    \A r \in Reqs :
        Returned(r) /\ trace[r][Len(trace[r])].ev = "exhausted" =>
            /\ LastOutcome(r).kind = "raise"
            /\ trace[r][Len(trace[r])].out = LastOutcome(r)
            /\ frame[r].last_exception = LastOutcome(r).exc
            /\ Caught(RaiseExhausted(frame[r]))
            /\ FellBack(r)

\* Exhausted by a failure that differs from the one before it.
C26_Witness ==
    \E r \in Reqs :
        /\ Kinds(r) = << "EmptyResponseError", "OpenRouterError" >>
        /\ FellBack(r)
        /\ trace[r][Len(trace[r])].out.exc.cls = "OpenRouterError"

-----------------------------------------------------------------------------
(* C27.  Nothing is slept after the last upstream call of a request: the   *)
(* exhaustion follows the failed outcome of that call directly.            *)

C27_NoSleepAfterLastCall ==
    \A r \in Reqs :
        Returned(r) /\ trace[r][Len(trace[r])].ev = "exhausted" =>
            IsResult(trace[r][Len(trace[r]) - 1])

-----------------------------------------------------------------------------
(* C28.  In every state total_requests is successful + failed + the number *)
(* of translate calls that have started and not returned; so successful +  *)
(* failed never exceeds total_requests, the success rate /stats reports    *)
(* never exceeds 1, and the two sides are equal when no request is in      *)
(* flight.                                                                 *)

NotYetReturned == {r \in Reqs : InFlight(r)}

C28_RequestsAccounted ==
    /\ stats.total_requests
        = stats.successful + stats.failed + Cardinality(NotYetReturned)
    /\ stats.successful + stats.failed <= stats.total_requests
    /\ StatsEndpoint.success_rate <= 10000
    /\ Quiet => stats.total_requests = stats.successful + stats.failed

\* One call has succeeded, one has fallen back and one is in flight.
C28_Witness ==
    /\ stats.successful >= 1
    /\ stats.failed >= 1
    /\ Cardinality(NotYetReturned) >= 1
    /\ stats.total_requests >= 3

-----------------------------------------------------------------------------
(* C29.  In every state last_successful_translation is null exactly when   *)
(* the successful counter is 0, and /health and /stats, read in any state  *)
(* between the steps of the requests, show the one with the other.         *)

C29_StampIffCounted ==
    /\ last_successful_translation = None <=> stats.successful = 0
    /\ HealthEndpoint.last_successful_translation = None
        <=> StatsEndpoint.successful = 0

\* The first success has completed while other requests are in flight.
C29_Witness ==
    /\ stats.successful = 1
    /\ last_successful_translation # None
    /\ Cardinality(NotYetReturned) >= 2

-----------------------------------------------------------------------------
(* C30.  For an answer with HTTP status 200, no error and a first choice,  *)
(* whatever its message content is (absent, JSON null, empty, whitespace   *)
(* only, non-blank text), the call either returns a non-empty trimmed text *)
(* or fails as EmptyResponse and is retried under that budget; it never    *)
(* fails as Unexpected.                                                    *)

C30_EveryContentShape ==
    \A r \in Reqs :
        ParsedWithoutError(answer[r]) /\ HasFirstChoice(answer[r]) =>
            /\ \/ /\ Succeeded(r)
                  /\ response[r].translated_text # <<>>
                  /\ response[r].translated_text
                        = Strip(response[r].translated_text)
               \/ HandledAsEmpty(r)
            /\ LastAnswerFailed(r) =>
                FailureKind(frame[r].last_exception) # "Unexpected"

====
